---- MODULE Spec2Model ----
(***************************************************************************)
(* CSV bulk-ingestion pipeline of the upload service: readCSVChunk (one    *)
(* producer goroutine), uploadCSV (the coordinator, ranging over the chunk *)
(* channel) and processChunk (one goroutine per chunk, gated by a counting *)
(* semaphore and joined through a WaitGroup).                              *)
(*                                                                         *)
(* Go slices are 0-based, TLA+ sequences 1-based: record[j] of the source  *)
(* is Field(record, j) here.                                               *)
(***************************************************************************)
EXTENDS Integers, Sequences, FiniteSets, TLC

(* ------------------------------ bounds --------------------------------- *)
MaxRows == 3
MaxChunkSize == 2
MaxQueueCap == 1
MaxConcurrency == 2
MaxActiveRows == 2
MaxLogLines == 3
MaxRequests == 2

(* --------------------------- program constants ------------------------- *)
batchSize == 10000

(* ------------------------------ inputs --------------------------------- *)
\* The column names of the header line used by the tests.
HeaderColumns ==
  <<"ID", "FirstName", "LastName", "Email", "Age", "Gender", "Department",
    "Company", "Salary", "DateJoined", "IsActive", "Extra">>

HeaderFieldCounts == {10, 11, 12}

Header(nf) == SubSeq(HeaderColumns, 1, nf)

\* A field holding a bare double quote: encoding/csv fails on such a line.
BareQuote == "a\"b"

RowKinds == {"ok", "badAge", "badSalary", "short", "long", "malformed"}

\* First names that tell the data lines of a file apart.
FirstNames == <<"John", "Jane", "Alice", "Bob", "Carol", "Dave", "Erin">>

FullRow(kind, no) ==
  <<ToString(no), FirstNames[no], "Doe", "user@example.com",
    IF kind = "badAge" THEN "abc" ELSE "30",
    "Male", "IT", "ExampleCorp",
    IF kind = "badSalary" THEN "xyz" ELSE "50000",
    "2020-01-01",
    CASE kind = "activeUpper" -> "True"
      [] kind = "activeOne"   -> "1"
      [] kind = "activeEmpty" -> ""
      [] OTHER                -> "true",
    "extra">>

\* The no-th data line of a file, already split at the commas.
Row(kind, no) ==
  CASE kind = "short"     -> SubSeq(FullRow(kind, no), 1, 10)
    [] kind = "long"      -> FullRow(kind, no)
    [] kind = "malformed" -> <<ToString(no), BareQuote>>
    [] OTHER              -> SubSeq(FullRow(kind, no), 1, 11)

FileOf(nf, kinds) ==
  <<Header(nf)>> \o [no \in 1..Len(kinds) |-> Row(kinds[no], no)]

KindSeqs == UNION {[1..n -> RowKinds] : n \in 0..(MaxRows + 1)}

\* A line the csv reader returns without error after a header of nf fields.
Readable(nf, line) ==
  /\ \A j \in 1..Len(line) : line[j] # BareQuote
  /\ Len(line) = nf

\* The reader stops at the first line it cannot read and nothing after that
\* line is ever looked at: the files end there. A file has at most MaxRows
\* readable data lines.
EndsAtFirstError(f) ==
  /\ \A j \in 2..(Len(f) - 1) : Readable(Len(f[1]), f[j])
  /\ Len(f) = MaxRows + 2 => ~Readable(Len(f[1]), f[Len(f)])

\* The empty upload, and every header followed by at most MaxRows readable
\* lines and possibly one unreadable line.
Files ==
  {<<>>} \cup {f \in {FileOf(nf, kinds) : nf \in HeaderFieldCounts, kinds \in KindSeqs} :
                 EndsAtFirstError(f)}

\* Rows that differ in the raw value of the IsActive column.
ActiveKinds == {"ok", "activeUpper", "activeOne", "activeEmpty", "badSalary"}

\* Files of the 11 columns with at most MaxActiveRows such rows.
ActiveFiles ==
  {FileOf(11, kinds) :
     kinds \in UNION {[1..n -> ActiveKinds] : n \in 0..MaxActiveRows}}

\* Log lines, as their words: the three lines of TestAnalyzeLogs, a line
\* without a level, and lines that name several levels in lower case.
LogLines ==
  {<<"INFO", "log">>, <<"ERROR", "log">>, <<"DEBUG", "log">>, <<"Warn", "log">>,
   <<"error", "info">>, <<"debug", "error">>}

\* A line longer than the 10 MB buffer given to the scanner.
OversizeLine == <<"INFO", "(10 MB of text)">>

\* The log file analyzeLogs is pointed at: missing, there but not openable,
\* or a sequence of lines with possibly an oversize line at its end.
LogFiles ==
  {[exists |-> FALSE, openable |-> FALSE, lines |-> <<>>],
   [exists |-> TRUE, openable |-> FALSE, lines |-> <<>>]}
  \cup {[exists |-> TRUE, openable |-> TRUE, lines |-> ls \o tl] :
          ls \in UNION {[1..n -> LogLines] : n \in 0..MaxLogLines},
          tl \in {<<>>, <<OversizeLine>>}}

(* ------------------------- library functions --------------------------- *)
\* strconv.Atoi on the field values that occur in the inputs.
Atoi(s) ==
  CASE s = "30" -> [err |-> FALSE, val |-> 30]
    [] s = "28" -> [err |-> FALSE, val |-> 28]
    [] s = "10" -> [err |-> FALSE, val |-> 10]
    [] s = "2"  -> [err |-> FALSE, val |-> 2]
    [] s = "1"  -> [err |-> FALSE, val |-> 1]
    [] s = "0"  -> [err |-> FALSE, val |-> 0]
    [] OTHER    -> [err |-> TRUE, val |-> 0]

\* strconv.ParseFloat(s, 64) on the field values that occur in the inputs.
ParseFloat(s) ==
  CASE s = "50000" -> [err |-> FALSE, val |-> 50000]
    [] s = "45000" -> [err |-> FALSE, val |-> 45000]
    [] s = "30"    -> [err |-> FALSE, val |-> 30]
    [] OTHER       -> [err |-> TRUE, val |-> 0]

Malformed(line) == \E j \in 1..Len(line) : line[j] = BareQuote

\* csv.Reader.Read with the default FieldsPerRecord = 0: the first record
\* fixes the field count, every later record of another length is returned
\* with ErrFieldCount; a bare quote is a ParseError; past the end, io.EOF.
csvRead(f, p, fpr) ==
  IF p > Len(f)
    THEN [err |-> "EOF", record |-> <<>>, pos |-> p, fpr |-> fpr]
  ELSE IF Malformed(f[p])
    THEN [err |-> "ParseError", record |-> <<>>, pos |-> p + 1, fpr |-> fpr]
  ELSE IF fpr > 0 /\ Len(f[p]) # fpr
    THEN [err |-> "ErrFieldCount", record |-> f[p], pos |-> p + 1, fpr |-> fpr]
  ELSE [err |-> "nil", record |-> f[p], pos |-> p + 1,
        fpr |-> IF fpr = 0 THEN Len(f[p]) ELSE fpr]

\* strings.ToUpper on the words that occur in the log lines.
ToUpperWord(w) ==
  CASE w = "info"  -> "INFO"
    [] w = "error" -> "ERROR"
    [] w = "debug" -> "DEBUG"
    [] w = "Warn"  -> "WARN"
    [] w = "log"   -> "LOG"
    [] w = "(10 MB of text)" -> "(10 MB OF TEXT)"
    [] OTHER       -> w

ToUpper(line) == [j \in 1..Len(line) |-> ToUpperWord(line[j])]

\* strings.Contains(line, kw) for a keyword kw: one of the words is kw.
Contains(line, kw) == \E j \in 1..Len(line) : line[j] = kw

(* ------------------------------ state ---------------------------------- *)
VARIABLES
  file,            \* the uploaded file: a sequence of lines
  chunkSize,       \* uploadCSV's chunkSize
  queueCap,        \* capacity of ch
  maxConcurrency,  \* capacity of semaphore
  pos,             \* csv reader: index of the next line
  fieldsPerRecord, \* csv reader: FieldsPerRecord
  rdPc,            \* readCSVChunk: position
  records,         \* readCSVChunk: the chunk being filled
  readErr,         \* readCSVChunk: the non-EOF error it stopped on, or "nil"
  rowsRead,        \* number of records appended by readCSVChunk
  published,       \* the chunks sent on ch so far, in order
  ch,              \* buffered content of the chunk channel
  closed,          \* ch has been closed
  upPc,            \* uploadCSV: position
  response,        \* what uploadCSV sent with c.JSON, or NoResponse
  wg,              \* WaitGroup counter
  semaphore,       \* number of tokens in the semaphore channel
  workers,         \* the processChunk goroutines, in spawn order
  crashed,         \* a goroutine panicked: the process is gone
  logFile,         \* analyzeLogs: the file at filePath
  logPc,           \* analyzeLogs: position
  logPos,          \* analyzeLogs: index of the next line of the scanner
  logErr,          \* analyzeLogs: scanner.Err() is set
  logCounts,       \* analyzeLogs: the map logCounts
  logResult,       \* analyzeLogs: what it returned, or NoResult
  requests,        \* GET /api/records: the handler calls, by request
  gDB,             \* GormDatabase.DB: which *gorm.DB the shared handle holds
  statements,      \* the Statement of each *gorm.DB made by a chain method
  fatal            \* the Go runtime stopped the process (concurrent map writes)

pipelineVars ==
  <<file, chunkSize, queueCap, maxConcurrency, pos, fieldsPerRecord,
    rdPc, records, readErr, rowsRead, published, ch, closed, upPc,
    response, wg, semaphore, workers, crashed>>

logVars == <<logFile, logPc, logPos, logErr, logCounts, logResult>>

apiVars == <<requests, gDB, statements, fatal>>

vars == <<pipelineVars, logVars, apiVars>>

config == <<file, chunkSize, queueCap, maxConcurrency>>
readerVars == <<pos, fieldsPerRecord, rdPc, records, readErr, rowsRead>>

NoResponse == [code |-> 0, body |-> "none"]

\* The knobs of uploadCSV, drawn from the bounded ranges.
Knobs ==
  /\ chunkSize \in 1..MaxChunkSize
  /\ queueCap \in 1..MaxQueueCap
  /\ maxConcurrency \in 1..MaxConcurrency

\* Nothing of the upload has run yet.
Start ==
  /\ pos = 1
  /\ fieldsPerRecord = 0
  /\ rdPc = "idle"
  /\ records = <<>>
  /\ readErr = "nil"
  /\ rowsRead = 0
  /\ published = <<>>
  /\ ch = <<>>
  /\ closed = FALSE
  /\ upPc = "start"
  /\ response = NoResponse
  /\ wg = 0
  /\ semaphore = 0
  /\ workers = <<>>
  /\ crashed = FALSE

LogLevels == {"INFO", "ERROR", "DEBUG"}

ZeroCounts == [k \in LogLevels |-> 0]

NoResult == [counts |-> "none", err |-> "none"]

\* analyzeLogs is not running.
LogIdle ==
  /\ logFile = [exists |-> FALSE, openable |-> FALSE, lines |-> <<>>]
  /\ logPc = "idle"
  /\ logPos = 1
  /\ logErr = FALSE
  /\ logCounts = ZeroCounts
  /\ logResult = NoResult

\* The query strings of GET /api/records: the parameter left out, a number,
\* a number below 1, and text that is not a number.
PageParams == {"absent", "2", "0", "abc"}
SizeParams == {"absent", "1", "0", "abc"}

Requests == 1..MaxRequests

\* The Statement of a *gorm.DB no chain method was called on: no OFFSET, no
\* LIMIT (limit 0), no ORDER BY.
EmptyStatement == [offset |-> 0, limit |-> 0, order |-> <<>>]

NoRequest ==
  [pc |-> "idle", page |-> 0, size |-> 0, offset |-> 0, tx |-> 0,
   v |-> EmptyStatement, applied |-> EmptyStatement, code |-> 0]

\* No request has come in; the shared handle holds the *gorm.DB that
\* gorm.Open returned (0), and no other *gorm.DB has been made.
ApiIdle ==
  /\ requests = [r \in Requests |-> NoRequest]
  /\ gDB = 0
  /\ statements = [i \in Requests |-> EmptyStatement]
  /\ fatal = FALSE

Init == file \in Files /\ Knobs /\ Start /\ LogIdle /\ ApiIdle

\* The uploads of files that vary the IsActive column.
InitActive == file \in ActiveFiles /\ Knobs /\ Start /\ LogIdle /\ ApiIdle

\* A call of analyzeLogs on one of the log files, no upload going on.
LogInit ==
  /\ file = <<>>
  /\ chunkSize = 1 /\ queueCap = 1 /\ maxConcurrency = 1
  /\ Start
  /\ logFile \in LogFiles
  /\ logPc = "stat"
  /\ logPos = 1
  /\ logErr = FALSE
  /\ logCounts = ZeroCounts
  /\ logResult = NoResult
  /\ ApiIdle

\* Requests to GET /api/records, no upload and no log analysis going on.
RecordsInit ==
  /\ file = <<>>
  /\ chunkSize = 1 /\ queueCap = 1 /\ maxConcurrency = 1
  /\ Start
  /\ LogIdle
  /\ ApiIdle

(* --------------------------- readCSVChunk ------------------------------ *)
\* reader.Read() for the header row, result and error ignored.
ReadHeader ==
  /\ ~crashed
  /\ rdPc = "header"
  /\ LET r == csvRead(file, pos, fieldsPerRecord) IN
       /\ pos' = r.pos
       /\ fieldsPerRecord' = r.fpr
  /\ rdPc' = "loop"
  /\ UNCHANGED <<apiVars, logVars, config, records, readErr, rowsRead, published, ch, closed,
                 upPc, response, wg, semaphore, workers, crashed>>

\* Mutant of AfterRead: at EOF the buffered rows are sent even when there
\* are none.
AfterRead_SendEmpty(err, n, k) ==
  CASE err = "nil" -> IF n + 1 >= k THEN "send" ELSE "loop"
    [] err = "EOF" -> "sendLast"
    [] OTHER       -> "close"

\* Mutant of AfterRead: at EOF the buffered rows are not sent.
AfterRead_DropLast(err, n, k) ==
  CASE err = "nil" -> IF n + 1 >= k THEN "send" ELSE "loop"
    [] OTHER       -> "close"

\* Mutant of AfterRead: on a read error the buffered rows are still sent.
AfterRead_FlushOnError(err, n, k) ==
  CASE err = "nil" -> IF n + 1 >= k THEN "send" ELSE "loop"
    [] OTHER       -> IF n > 0 THEN "sendLast" ELSE "close"

\* Mutant of AfterRead: on a read error the reader returns without closing.
AfterRead_ReturnOnError(err, n, k) ==
  CASE err = "nil" -> IF n + 1 >= k THEN "send" ELSE "loop"
    [] err = "EOF" -> IF n > 0 THEN "sendLast" ELSE "close"
    [] OTHER       -> "done"

\* Where the reader goes after a reader.Read() that returned err, with n
\* records buffered (before the append) and chunk size k.
AfterRead(err, n, k) ==
  CASE err = "nil" -> IF n + 1 >= k THEN "send" ELSE "loop"
    [] err = "EOF" -> IF n > 0 THEN "sendLast" ELSE "close"
    [] OTHER       -> "close"

\* One iteration of the inner loop: reader.Read() and what follows from it.
ReadRecord ==
  /\ ~crashed
  /\ rdPc = "loop"
  /\ LET r == csvRead(file, pos, fieldsPerRecord) IN
       /\ pos' = r.pos
       /\ fieldsPerRecord' = r.fpr
       /\ rdPc' = AfterRead(r.err, Len(records), chunkSize)
       /\ records' = IF r.err = "nil" THEN Append(records, r.record) ELSE records
       /\ rowsRead' = IF r.err = "nil" THEN rowsRead + 1 ELSE rowsRead
       /\ readErr' = IF r.err \notin {"nil", "EOF"} THEN r.err ELSE readErr
  /\ UNCHANGED <<apiVars, logVars, config, published, ch, closed, upPc, response, wg, semaphore,
                 workers, crashed>>

\* Mutant of SendChunk: the send never blocks.
SendChunk_NoBlock ==
  /\ ~crashed
  /\ rdPc \in {"send", "sendLast"}
  /\ ch' = Append(ch, records)
  /\ published' = Append(published, records)
  /\ IF rdPc = "send"
       THEN rdPc' = "loop" /\ records' = <<>>
       ELSE rdPc' = "close" /\ records' = records
  /\ UNCHANGED <<apiVars, logVars, config, pos, fieldsPerRecord, readErr, rowsRead, closed, upPc,
                 response, wg, semaphore, workers, crashed>>

\* ch <- records: blocks while the buffer is full.
SendChunk ==
  /\ ~crashed
  /\ rdPc \in {"send", "sendLast"}
  /\ Len(ch) < queueCap
  /\ ch' = Append(ch, records)
  /\ published' = Append(published, records)
  /\ IF rdPc = "send"
       THEN rdPc' = "loop" /\ records' = <<>>
       ELSE rdPc' = "close" /\ records' = records
  /\ UNCHANGED <<apiVars, logVars, config, pos, fieldsPerRecord, readErr, rowsRead, closed, upPc,
                 response, wg, semaphore, workers, crashed>>

\* close(ch); return
CloseChannel ==
  /\ ~crashed
  /\ rdPc = "close"
  /\ closed' = TRUE
  /\ rdPc' = "done"
  /\ UNCHANGED <<apiVars, logVars, config, pos, fieldsPerRecord, records, readErr, rowsRead,
                 published, ch, upPc, response, wg, semaphore, workers, crashed>>

(* ---------------------------- processChunk ----------------------------- *)
Field(record, j) == record[j + 1]

\* Mutant of UserDataOf: the boolean is parsed leniently.
UserDataOf_LenientBool(record, age, salary) ==
  [FirstName |-> Field(record, 1), LastName |-> Field(record, 2),
   Email |-> Field(record, 3), Age |-> age, Gender |-> Field(record, 5),
   Department |-> Field(record, 6), Company |-> Field(record, 7),
   Salary |-> salary, DateJoined |-> Field(record, 9),
   IsActive |-> (Field(record, 10) \in {"true", "True", "1"})]

UserDataOf(record, age, salary) ==
  [FirstName |-> Field(record, 1), LastName |-> Field(record, 2),
   Email |-> Field(record, 3), Age |-> age, Gender |-> Field(record, 5),
   Department |-> Field(record, 6), Company |-> Field(record, 7),
   Salary |-> salary, DateJoined |-> Field(record, 9),
   IsActive |-> (Field(record, 10) = "true")]

\* Mutant of ParseRecord: an age that does not parse is taken as 0.
ParseRecord_DefaultAge(record) ==
  IF Len(record) < 9 THEN [res |-> "panic"]
  ELSE IF ParseFloat(Field(record, 8)).err THEN [res |-> "salary"]
  ELSE IF Len(record) < 11 THEN [res |-> "panic"]
  ELSE [res |-> "ok",
        user |-> UserDataOf(record, Atoi(Field(record, 4)).val,
                            ParseFloat(Field(record, 8)).val)]

\* One iteration of the loop over the chunk: "panic" when an index is out of
\* range, "age" / "salary" for the two skips, "ok" with the record built.
ParseRecord(record) ==
  IF Len(record) < 5 THEN [res |-> "panic"]
  ELSE IF Atoi(Field(record, 4)).err THEN [res |-> "age"]
  ELSE IF Len(record) < 9 THEN [res |-> "panic"]
  ELSE IF ParseFloat(Field(record, 8)).err THEN [res |-> "salary"]
  ELSE IF Len(record) < 11 THEN [res |-> "panic"]
  ELSE [res |-> "ok",
        user |-> UserDataOf(record, Atoi(Field(record, 4)).val,
                            ParseFloat(Field(record, 8)).val)]

\* The loop over the chunk from row j on, having built users and skipped
\* (logged) the rows in skipped.
RECURSIVE ParseFrom(_, _, _, _)
ParseFrom(recs, j, users, skipped) ==
  IF j > Len(recs) THEN [panic |-> FALSE, users |-> users, skipped |-> skipped]
  ELSE LET p == ParseRecord(recs[j]) IN
    CASE p.res = "panic" -> [panic |-> TRUE, users |-> users, skipped |-> skipped]
      [] p.res = "ok"    -> ParseFrom(recs, j + 1, Append(users, p.user), skipped)
      [] OTHER           -> ParseFrom(recs, j + 1, users, Append(skipped, recs[j]))

Reverse(seq) == [j \in 1..Len(seq) |-> seq[Len(seq) + 1 - j]]

\* Mutant of ParseChunk: the records are collected in reverse order.
ParseChunk_Reversed(recs) ==
  LET p == ParseFrom(recs, 1, <<>>, <<>>) IN [p EXCEPT !.users = Reverse(@)]

ParseChunk(recs) == ParseFrom(recs, 1, <<>>, <<>>)

NewWorker(recs) ==
  [records |-> recs, pc |-> "acquire", users |-> <<>>, skipped |-> <<>>,
   calls |-> <<>>, errors |-> 0]

Workers == 1..Len(workers)

\* Mutant of AfterParse: the insert is made also when users is empty.
AfterParse_AlwaysInsert(p) ==
  IF p.panic THEN "panicked" ELSE "insert"

\* Where a worker goes after the parse loop.
AfterParse(p) ==
  IF p.panic THEN "panicked"
  ELSE IF Len(p.users) > 0 THEN "insert" ELSE "release"

\* Mutant of AcquireAndParse: the send on the semaphore never blocks.
AcquireAndParse_NoLimit(w) ==
  /\ ~crashed
  /\ workers[w].pc = "acquire"
  /\ semaphore' = semaphore + 1
  /\ LET p == ParseChunk(workers[w].records) IN
       /\ workers' = [workers EXCEPT ![w].pc = AfterParse(p),
                                     ![w].users = p.users,
                                     ![w].skipped = p.skipped]
       /\ crashed' = p.panic
  /\ UNCHANGED <<apiVars, logVars, config, readerVars, published, ch, closed, upPc, response, wg>>

\* Mutant of AcquireAndParse: tokens are handed out in spawn order.
AcquireAndParse_InSpawnOrder(w) ==
  /\ ~crashed
  /\ workers[w].pc = "acquire"
  /\ \A v \in 1..(w - 1) : workers[v].pc # "acquire"
  /\ semaphore < maxConcurrency
  /\ semaphore' = semaphore + 1
  /\ LET p == ParseChunk(workers[w].records) IN
       /\ workers' = [workers EXCEPT ![w].pc = AfterParse(p),
                                     ![w].users = p.users,
                                     ![w].skipped = p.skipped]
       /\ crashed' = p.panic
  /\ UNCHANGED <<apiVars, logVars, config, readerVars, published, ch, closed, upPc, response, wg>>

\* semaphore <- struct{}{}, which blocks while the semaphore is full, and
\* then the loop over the records of the chunk (local to the goroutine).
AcquireAndParse(w) ==
  /\ ~crashed
  /\ workers[w].pc = "acquire"
  /\ semaphore < maxConcurrency
  /\ semaphore' = semaphore + 1
  /\ LET p == ParseChunk(workers[w].records) IN
       /\ workers' = [workers EXCEPT ![w].pc = AfterParse(p),
                                     ![w].users = p.users,
                                     ![w].skipped = p.skipped]
       /\ crashed' = p.panic
  /\ UNCHANGED <<apiVars, logVars, config, readerVars, published, ch, closed, upPc, response, wg>>

\* Mutant of AfterInsert: a failed insert is tried again.
AfterInsert_Retry(failed) == IF failed THEN "insert" ELSE "release"

\* Mutant of AfterInsert: a failed insert returns without releasing.
AfterInsert_SkipRelease(failed) == IF failed THEN "wgDone" ELSE "release"

\* Where a worker goes after CreateInBatches returned (failed or not).
AfterInsert(failed) == "release"

\* Mutant of Insert: a failed insert panics, as setupDatabase does.
Insert_PanicOnError(w) ==
  /\ ~crashed
  /\ workers[w].pc = "insert"
  /\ \E failed \in BOOLEAN :
       /\ workers' = [workers EXCEPT
            ![w].pc = IF failed THEN "panicked" ELSE "release",
            ![w].calls = Append(@, [users |-> workers[w].users,
                                    batchSize |-> batchSize, failed |-> failed]),
            ![w].errors = IF failed THEN @ + 1 ELSE @]
       /\ crashed' = failed
  /\ UNCHANGED <<apiVars, logVars, config, readerVars, published, ch, closed, upPc, response, wg,
                 semaphore>>

\* dbHandler.CreateInBatches(users, batchSize): succeeds or fails; a failure
\* is printed ("Database insertion error"), which errors counts.
Insert(w) ==
  /\ ~crashed
  /\ workers[w].pc = "insert"
  /\ \E failed \in BOOLEAN :
       workers' = [workers EXCEPT
         ![w].pc = AfterInsert(failed),
         ![w].calls = Append(@, [users |-> workers[w].users,
                                 batchSize |-> batchSize, failed |-> failed]),
         ![w].errors = IF failed THEN @ + 1 ELSE @]
  /\ UNCHANGED <<apiVars, logVars, config, readerVars, published, ch, closed, upPc, response, wg,
                 semaphore, crashed>>

\* <-semaphore
Release(w) ==
  /\ ~crashed
  /\ workers[w].pc = "release"
  /\ semaphore' = semaphore - 1
  /\ workers' = [workers EXCEPT ![w].pc = "wgDone"]
  /\ UNCHANGED <<apiVars, logVars, config, readerVars, published, ch, closed, upPc, response, wg,
                 crashed>>

\* The deferred wg.Done().
WgDone(w) ==
  /\ ~crashed
  /\ workers[w].pc = "wgDone"
  /\ wg' = wg - 1
  /\ workers' = [workers EXCEPT ![w].pc = "done"]
  /\ UNCHANGED <<apiVars, logVars, config, readerVars, published, ch, closed, upPc, response,
                 semaphore, crashed>>

(* ------------------------------ uploadCSV ------------------------------ *)
FormFileOutcomes == {"ok", "noFile", "openFailed"}

SuccessBody == "CSV file processed successfully and data stored in database."

\* The response of uploadCSV once every worker has finished.
FinalResponse(err) == [code |-> 200, body |-> SuccessBody]

\* c.FormFile / fileHeader.Open, then the set-up and go readCSVChunk.
UploadStart ==
  /\ ~crashed
  /\ upPc = "start"
  /\ \E f \in FormFileOutcomes :
       CASE f = "noFile" ->
              /\ response' = [code |-> 400, body |-> "Failed to get file"]
              /\ upPc' = "done"
              /\ rdPc' = rdPc
         [] f = "openFailed" ->
              /\ response' = [code |-> 400, body |-> "Failed to open file"]
              /\ upPc' = "done"
              /\ rdPc' = rdPc
         [] OTHER ->
              /\ response' = response
              /\ upPc' = "range"
              /\ rdPc' = "header"
  /\ UNCHANGED <<apiVars, logVars, config, pos, fieldsPerRecord, records, readErr, rowsRead,
                 published, ch, closed, wg, semaphore, workers, crashed>>

\* One iteration of "for records := range ch": wg.Add(1); go processChunk.
ReceiveChunk ==
  /\ ~crashed
  /\ upPc = "range"
  /\ ch # <<>>
  /\ ch' = Tail(ch)
  /\ wg' = wg + 1
  /\ workers' = Append(workers, NewWorker(Head(ch)))
  /\ UNCHANGED <<apiVars, logVars, config, readerVars, published, closed, upPc, response,
                 semaphore, crashed>>

\* Mutant of RangeEnd: the loop ends as soon as ch is closed.
RangeEnd_DropQueued ==
  /\ ~crashed
  /\ upPc = "range"
  /\ closed
  /\ upPc' = "wait"
  /\ UNCHANGED <<apiVars, logVars, config, readerVars, published, ch, closed, response, wg,
                 semaphore, workers, crashed>>

\* The range loop ends: ch is closed and drained.
RangeEnd ==
  /\ ~crashed
  /\ upPc = "range"
  /\ ch = <<>>
  /\ closed
  /\ upPc' = "wait"
  /\ UNCHANGED <<apiVars, logVars, config, readerVars, published, ch, closed, response, wg,
                 semaphore, workers, crashed>>

\* Mutant of Respond: the response is sent without wg.Wait().
Respond_NoWait ==
  /\ ~crashed
  /\ upPc = "wait"
  /\ response' = FinalResponse(readErr)
  /\ upPc' = "done"
  /\ UNCHANGED <<apiVars, logVars, config, readerVars, published, ch, closed, wg, semaphore,
                 workers, crashed>>

\* wg.Wait() returns; c.JSON(200, ...).
Respond ==
  /\ ~crashed
  /\ upPc = "wait"
  /\ wg = 0
  /\ response' = FinalResponse(readErr)
  /\ upPc' = "done"
  /\ UNCHANGED <<apiVars, logVars, config, readerVars, published, ch, closed, wg, semaphore,
                 workers, crashed>>

(* ----------------------------- analyzeLogs ----------------------------- *)
\* Mutant of LevelsCounted: three independent ifs instead of the else-if
\* chain.
LevelsCounted_Independent(line) ==
  {k \in LogLevels : Contains(ToUpper(line), k)}

\* The levels whose count one iteration of the scan loop raises for line.
LevelsCounted(line) ==
  IF Contains(ToUpper(line), "INFO") THEN {"INFO"}
  ELSE IF Contains(ToUpper(line), "ERROR") THEN {"ERROR"}
  ELSE IF Contains(ToUpper(line), "DEBUG") THEN {"DEBUG"}
  ELSE {}

\* os.Stat(filePath) and the os.IsNotExist test.
LogStat ==
  /\ logPc = "stat"
  /\ IF logFile.exists
       THEN logPc' = "open" /\ logResult' = logResult
       ELSE /\ logPc' = "done"
            /\ logResult' = [counts |-> "nil", err |-> "log file does not exist"]
  /\ UNCHANGED <<apiVars, pipelineVars, logFile, logPos, logErr, logCounts>>

\* os.Open(filePath) and the scanner set-up.
LogOpen ==
  /\ logPc = "open"
  /\ IF logFile.openable
       THEN logPc' = "scan" /\ logResult' = logResult
       ELSE /\ logPc' = "done"
            /\ logResult' = [counts |-> "nil", err |-> "failed to open log file"]
  /\ UNCHANGED <<apiVars, pipelineVars, logFile, logPos, logErr, logCounts>>

\* scanner.Scan() and, when it gave a line, the body of the loop.
LogScan ==
  /\ logPc = "scan"
  /\ IF logPos > Len(logFile.lines)
       THEN logPc' = "finish" /\ UNCHANGED <<logPos, logErr, logCounts>>
     ELSE IF logFile.lines[logPos] = OversizeLine
       THEN logPc' = "finish" /\ logErr' = TRUE /\ UNCHANGED <<logPos, logCounts>>
     ELSE /\ logPc' = "scan"
          /\ logPos' = logPos + 1
          /\ logErr' = logErr
          /\ logCounts' =
               [k \in LogLevels |->
                  IF k \in LevelsCounted(logFile.lines[logPos])
                    THEN logCounts[k] + 1 ELSE logCounts[k]]
  /\ UNCHANGED <<apiVars, pipelineVars, logFile, logResult>>

\* The scanner.Err() test and the return.
LogReturn ==
  /\ logPc = "finish"
  /\ logPc' = "done"
  /\ logResult' = IF logErr
                    THEN [counts |-> "nil", err |-> "failed to read log file"]
                    ELSE [counts |-> logCounts, err |-> "nil"]
  /\ UNCHANGED <<apiVars, pipelineVars, logFile, logPos, logErr, logCounts>>

LogNext == LogStat \/ LogOpen \/ LogScan \/ LogReturn

LogSpec == LogInit /\ [][LogNext]_vars

(* --------------------------- GET /api/records -------------------------- *)
\* c.DefaultQuery(key, def): def when the parameter is not in the query.
DefaultQuery(q, def) == IF q = "absent" THEN def ELSE q

\* db.getInstance() of gorm: the *gorm.DB of gorm.Open (clone = 1) gives a
\* new *gorm.DB with an empty Statement, here the one numbered after the
\* request that made it; a *gorm.DB a chain method returned (clone = 0)
\* gives itself.
getInstance(db, r) == IF db = 0 THEN r ELSE db

\* The Statement after Offset(offset): gorm merges the new LIMIT clause with
\* the one already there, and an offset of 0 leaves a positive one in place.
Offset(st, offset) ==
  [st EXCEPT !.offset = IF offset = 0 /\ @ > 0 THEN @ ELSE offset]

\* The Statement after Limit(limit): a limit of 0 leaves the old one in place.
Limit(st, limit) ==
  [st EXCEPT !.limit = IF limit = 0 THEN @ ELSE limit]

\* The Statement after Order(value): the column is added to the ORDER BY.
Order(st, value) == [st EXCEPT !.order = Append(@, value)]

\* The handler from its start to the call of db.Offset: the two parameters
\* are read and checked, the offset is computed.
RecordsStart(r) ==
  /\ ~fatal
  /\ requests[r].pc = "idle"
  /\ r > 1 => requests[r - 1].pc # "idle"
  /\ \E pageQ \in PageParams, sizeQ \in SizeParams :
       LET page == Atoi(DefaultQuery(pageQ, "1"))
           size == Atoi(DefaultQuery(sizeQ, "10")) IN
       requests' = [requests EXCEPT ![r] =
         IF page.err \/ page.val < 1 THEN [@ EXCEPT !.pc = "done", !.code = 400]
         ELSE IF size.err \/ size.val < 1
           THEN [@ EXCEPT !.pc = "done", !.code = 400, !.page = page.val]
         ELSE [@ EXCEPT !.pc = "Offset", !.page = page.val, !.size = size.val,
                        !.offset = (page.val - 1) * size.val]]
  /\ UNCHANGED <<pipelineVars, logVars, gDB, statements, fatal>>

ChainMethods == {"Offset", "Limit", "Order"}

\* First half of g.DB = g.DB.Offset(offset) (or Limit, or Order): g.DB is
\* read, getInstance gives the *gorm.DB to work on and the clause it has is
\* read for the merge.
ChainCall(r) ==
  /\ ~fatal
  /\ requests[r].pc \in ChainMethods
  /\ LET tx == getInstance(gDB, r) IN
       requests' = [requests EXCEPT
         ![r].tx = tx,
         ![r].v = statements[tx],
         ![r].pc = CASE requests[r].pc = "Offset" -> "OffsetReturn"
                     [] requests[r].pc = "Limit"  -> "LimitReturn"
                     [] OTHER                     -> "OrderReturn"]
  /\ UNCHANGED <<pipelineVars, logVars, gDB, statements, fatal>>

\* Another handler call is inside a chain method on the same *gorm.DB.
Overlaps(r) ==
  \E o \in Requests \ {r} :
    /\ requests[o].pc \in {"OffsetReturn", "LimitReturn", "OrderReturn"}
    /\ requests[o].tx = requests[r].tx

\* Second half: the merged clause is written into the Statement and the
\* *gorm.DB is stored in g.DB. Nothing orders the writes of two handler
\* calls: when they overlap, the runtime may stop the process.
ChainReturn(r) ==
  /\ ~fatal
  /\ requests[r].pc \in {"OffsetReturn", "LimitReturn", "OrderReturn"}
  /\ LET tx == requests[r].tx
         v == requests[r].v
         m == CASE requests[r].pc = "OffsetReturn" -> Offset(v, requests[r].offset)
                [] requests[r].pc = "LimitReturn"  -> Limit(v, requests[r].size)
                [] OTHER                           -> Order(v, "id ASC") IN
       /\ statements' = [statements EXCEPT ![tx] =
            IF requests[r].pc = "OrderReturn"
              THEN [@ EXCEPT !.order = m.order]
              ELSE [@ EXCEPT !.offset = m.offset, !.limit = m.limit]]
       /\ gDB' = tx
  /\ requests' = [requests EXCEPT
       ![r].v = EmptyStatement,
       ![r].pc = CASE requests[r].pc = "OffsetReturn" -> "Limit"
                   [] requests[r].pc = "LimitReturn"  -> "Order"
                   [] OTHER                           -> "Find"]
  /\ \E f \in (IF Overlaps(r) THEN BOOLEAN ELSE {FALSE}) : fatal' = f
  /\ UNCHANGED <<pipelineVars, logVars>>

\* g.DB.Find(&records): the query is built from the Statement of the
\* *gorm.DB that g.DB holds now; then the response, 500 on an error.
Find(r) ==
  /\ ~fatal
  /\ requests[r].pc = "Find"
  /\ \E failed \in BOOLEAN :
       requests' = [requests EXCEPT
         ![r].applied = statements[gDB],
         ![r].code = IF failed THEN 500 ELSE 200,
         ![r].pc = "done"]
  /\ UNCHANGED <<pipelineVars, logVars, gDB, statements, fatal>>

RecordsNext ==
  \/ \E r \in Requests : RecordsStart(r)
  \/ \E r \in Requests : ChainCall(r)
  \/ \E r \in Requests : ChainReturn(r)
  \/ \E r \in Requests : Find(r)

RecordsSpec == RecordsInit /\ [][RecordsNext]_vars

(* --------------------------- specification ----------------------------- *)
Next ==
  \/ UploadStart
  \/ ReadHeader
  \/ ReadRecord
  \/ SendChunk
  \/ CloseChannel
  \/ ReceiveChunk
  \/ RangeEnd
  \/ Respond
  \/ \E w \in Workers : AcquireAndParse(w)
  \/ \E w \in Workers : Insert(w)
  \/ \E w \in Workers : Release(w)
  \/ \E w \in Workers : WgDone(w)

Spec == Init /\ [][Next]_vars

ActiveSpec == InitActive /\ [][Next]_vars

\* Every goroutine that can run keeps running (Go's scheduler is fair).
WorkerStep(w) ==
  /\ w \in Workers
  /\ (AcquireAndParse(w) \/ Insert(w) \/ Release(w) \/ WgDone(w))

ReaderStep == ReadHeader \/ ReadRecord \/ SendChunk \/ CloseChannel

UploadStep == UploadStart \/ ReceiveChunk \/ RangeEnd \/ Respond

FairSpec ==
  /\ Spec
  /\ WF_vars(ReaderStep)
  /\ WF_vars(UploadStep)
  /\ \A w \in 1..MaxRows : WF_vars(WorkerStep(w))

(* ------------------------- derived quantities -------------------------- *)
\* The pipeline was started (the file was obtained and opened).
Started == rdPc # "idle"

\* uploadCSV has sent the response that follows wg.Wait().
Terminal == upPc = "done" /\ Started

\* The workers that hold a token: acquired and not yet released (a worker
\* that panicked in the parse loop took its token down with the process).
Active ==
  {w \in Workers : workers[w].pc \in {"insert", "release", "panicked"}}

AllWorkersDone == \A w \in Workers : workers[w].pc = "done"

\* A row whose age and salary fields both parse.
RowParses(record) ==
  /\ ~Atoi(Field(record, 4)).err
  /\ ~ParseFloat(Field(record, 8)).err

ValidRows(recs) == SelectSeq(recs, RowParses)

\* The data lines of the file (all lines after the header).
DataLines == IF file = <<>> THEN <<>> ELSE Tail(file)

\* A header followed by lines that all parse as CSV with the header's
\* number of fields.
WellFormed ==
  /\ file # <<>>
  /\ \A j \in 1..Len(DataLines) :
       ~Malformed(DataLines[j]) /\ Len(DataLines[j]) = Len(file[1])

Min(a, b) == IF a < b THEN a ELSE b

\* ceil(n / k)
CeilDiv(n, k) == (n + k - 1) \div k

\* rows cut into consecutive pieces of k rows, the last one possibly shorter.
ChunksOf(rows, k) ==
  [c \in 1..CeilDiv(Len(rows), k) |->
     SubSeq(rows, (c - 1) * k + 1, Min(c * k, Len(rows)))]

RECURSIVE Concat(_)
Concat(chunks) ==
  IF chunks = <<>> THEN <<>> ELSE Head(chunks) \o Concat(Tail(chunks))

RECURSIVE CallRows(_)
CallRows(calls) ==
  IF calls = <<>> THEN 0 ELSE Len(Head(calls).users) + CallRows(Tail(calls))

\* Rows skipped by the parse loops of the first n workers.
RECURSIVE RejectedUpTo(_)
RejectedUpTo(n) ==
  IF n = 0 THEN 0 ELSE Len(workers[n].skipped) + RejectedUpTo(n - 1)

\* Rows passed to CreateInBatches by the first n workers.
RECURSIVE AttemptedUpTo(_)
AttemptedUpTo(n) ==
  IF n = 0 THEN 0 ELSE CallRows(workers[n].calls) + AttemptedUpTo(n - 1)

RECURSIVE CallsUpTo(_)
CallsUpTo(n) ==
  IF n = 0 THEN 0 ELSE Len(workers[n].calls) + CallsUpTo(n - 1)

Rejected == RejectedUpTo(Len(workers))
Attempted == AttemptedUpTo(Len(workers))
TotalCalls == CallsUpTo(Len(workers))

\* Rows the reader had buffered when it stopped on a read error.
Dropped == IF readErr # "nil" THEN Len(records) ELSE 0

InsertFailed(w) ==
  \E c \in 1..Len(workers[w].calls) : workers[w].calls[c].failed

InsertSucceeded(w) ==
  \E c \in 1..Len(workers[w].calls) : ~workers[w].calls[c].failed

\* The worker is past its insert (made it, or skipped it).
PastInsert(w) == workers[w].pc \in {"release", "wgDone", "done"}

(* ------------------------------- claims -------------------------------- *)
\* C1: at any time, the number of processChunk tasks that hold an admission
\* token (parsing or inserting, not yet released) is at most maxConcurrency.
C1_BoundedConcurrency ==
  /\ Cardinality(Active) <= maxConcurrency
  /\ semaphore = Cardinality(Active)

\* C1 witness: the pool is saturated while another spawned task waits.
C1_Witness ==
  /\ Cardinality(Active) = maxConcurrency
  /\ \E w \in Workers : workers[w].pc = "acquire"

\* C2: the response after the pipeline is sent only once the reader has
\* closed the channel, every published chunk has been handed to a worker,
\* and every spawned worker has finished (wg = 0): none runs or waits.
C2_ResponseAfterJoin ==
  Terminal =>
    /\ closed /\ rdPc = "done"
    /\ ch = <<>>
    /\ Len(workers) = Len(published)
    /\ AllWorkersDone
    /\ wg = 0
    /\ response # NoResponse

\* C2 witness: a response sent after two workers were spawned and joined.
C2_Witness == Terminal /\ Len(workers) >= 2 /\ response.code = 200

\* C3: for every finite input and configuration, under fair scheduling the
\* reader terminates, every spawned worker finishes and uploadCSV eventually
\* sends a response.
C3_Claim ==
  <>(/\ upPc = "done"
     /\ response # NoResponse
     /\ (Started => rdPc = "done" /\ AllWorkersDone))

\* What does hold of the code under fair scheduling: the upload terminates
\* as C3 says unless a worker panicked.
TerminatesUnlessPanic ==
  <>(crashed \/ (/\ upPc = "done"
                 /\ response # NoResponse
                 /\ (Started => rdPc = "done" /\ AllWorkersDone)))

\* C4: when the reader stopped on a read error other than EOF, the response
\* of uploadCSV is an error indicator, not a success.
C4_Claim ==
  (upPc = "done" /\ readErr # "nil") => response.code >= 400

C6_Claim == Terminal => rowsRead = Rejected + Attempted

\* C6 amended: at the terminal state, rows read = rows rejected + rows
\* passed to bulk insert + rows of the partial chunk the reader discarded
\* when it stopped on a read error (none when the stream ended with EOF).
C6_Accounting == Terminal => rowsRead = Rejected + Attempted + Dropped

\* C6 witness: terminal state after a read error part-way through a chunk,
\* with rows rejected and rows inserted before it.
C6_Witness ==
  Terminal /\ readErr # "nil" /\ Dropped > 0 /\ Rejected > 0 /\ Attempted > 0

\* C7: for a header and n data rows, all well-formed, and chunk size k, the
\* reader publishes exactly the ceil(n/k) chunks that cut the data rows, in
\* file order, into pieces of k rows (the last one of 1..k rows), never an
\* empty chunk and never the header, and then closes the channel.
C7_Chunking ==
  /\ \A c \in 1..Len(published) :
       /\ Len(published[c]) \in 1..chunkSize
       /\ c < Len(published) => Len(published[c]) = chunkSize
  /\ (WellFormed /\ rdPc = "done") =>
       /\ closed
       /\ Len(published) = CeilDiv(Len(DataLines), chunkSize)
       /\ published = ChunksOf(DataLines, chunkSize)
       /\ Concat(published) = DataLines

\* C7 witness: three well-formed rows read with chunk size 2 (a full chunk
\* and a partial last one); the reader has closed the channel.
C7_Witness ==
  /\ WellFormed /\ rdPc = "done" /\ chunkSize = 2
  /\ Len(published) = 2 /\ Len(published[2]) = 1

\* C8: a row whose age or salary does not parse is in no record sequence
\* passed to bulk insert (neither as it is nor with a defaulted value), and
\* every row of the same chunk that parses is passed to bulk insert.
C8_BadRowsRejected ==
  \A w \in Workers :
    LET recs == workers[w].records IN
    /\ \A c \in 1..Len(workers[w].calls) :
         LET users == workers[w].calls[c].users IN
         \A j \in 1..Len(recs) :
           IF RowParses(recs[j])
             THEN \E u \in 1..Len(users) :
                    /\ users[u].FirstName = Field(recs[j], 1)
                    /\ users[u].Age = 30 /\ users[u].Salary = 50000
             ELSE \A u \in 1..Len(users) :
                    users[u].FirstName # Field(recs[j], 1)
    /\ PastInsert(w) =>
         Len(workers[w].calls) = IF ValidRows(recs) # <<>> THEN 1 ELSE 0

\* C8 witness: an insert call made for a chunk of which one row was
\* rejected and another one parsed.
C8_Witness ==
  \E w \in Workers :
    /\ Len(workers[w].calls) = 1
    /\ Len(workers[w].skipped) >= 1
    /\ Len(workers[w].calls[1].users) >= 1

\* C9: a data row with fewer than 11 fields is only skipped: the process
\* does not crash, the reader still reads every other row, and every row
\* with at least 11 fields that parses is passed to bulk insert.
C9_Claim ==
  (\A j \in 1..Len(DataLines) : ~Malformed(DataLines[j])) =>
    /\ ~crashed
    /\ readErr = "nil"
    /\ Terminal =>
         /\ rowsRead = Len(DataLines)
         /\ Attempted = Cardinality({j \in 1..Len(DataLines) :
                           Len(DataLines[j]) >= 11 /\ RowParses(DataLines[j])})

\* C10: every published chunk is handed to exactly one worker, which calls
\* bulk insert at most once (batch size 10000), exactly once if the chunk
\* has a valid row; at the terminal state the number of bulk-insert calls
\* is the number of published chunks with at least one valid row.
C10_OneInsertPerChunk ==
  /\ Len(workers) + Len(ch) = Len(published)
  /\ \A w \in Workers :
       /\ workers[w].records = published[w]
       /\ Len(workers[w].calls) <= 1
       /\ \A c \in 1..Len(workers[w].calls) :
            workers[w].calls[c].batchSize = 10000
       /\ PastInsert(w) =>
            Len(workers[w].calls)
              = IF ValidRows(workers[w].records) # <<>> THEN 1 ELSE 0
  /\ \A j \in 1..Len(ch) : ch[j] = published[Len(workers) + j]
  /\ Terminal =>
       TotalCalls = Cardinality({c \in 1..Len(published) :
                                  ValidRows(published[c]) # <<>>})

\* C10 witness: terminal state with a chunk whose insert failed (and was
\* not repeated), a chunk inserted, and a chunk with no valid row.
C10_Witness ==
  /\ Terminal
  /\ \E w \in Workers : InsertFailed(w)
  /\ \E w \in Workers : InsertSucceeded(w)
  /\ \E w \in Workers : workers[w].calls = <<>>

\* The worker rejected every row of its chunk.
AllRejected(w) ==
  /\ workers[w].records # <<>>
  /\ \A j \in 1..Len(workers[w].records) : ~RowParses(workers[w].records[j])

\* The workers that have been spawned and have not signalled completion.
Unfinished == {w \in Workers : workers[w].pc # "done"}

\* C11: a worker whose chunk has only rejected rows makes no bulk-insert
\* call (no empty insert) and goes on to release its token and to signal
\* completion: once it is done the token is back and wg has been lowered.
C11_NoEmptyInsert ==
  /\ \A w \in Workers :
       (AllRejected(w) /\ workers[w].pc # "acquire") =>
         /\ workers[w].calls = <<>>
         /\ workers[w].users = <<>>
         /\ Len(workers[w].skipped) = Len(workers[w].records)
         /\ workers[w].pc \in {"release", "wgDone", "done"}
  /\ \A w \in Workers : \A c \in 1..Len(workers[w].calls) :
       workers[w].calls[c].users # <<>>
  /\ semaphore = Cardinality(Active)
  /\ wg = Cardinality(Unfinished)

\* C11 witness: a worker is done with a chunk of which it rejected every
\* row, having made no insert call; no token is held and wg is zero.
C11_Witness ==
  /\ \E w \in Workers :
       AllRejected(w) /\ workers[w].pc = "done" /\ workers[w].calls = <<>>
  /\ semaphore = 0 /\ wg = 0

\* Number of data lines whose age or salary does not parse.
BadLines == Cardinality({j \in 1..Len(DataLines) : ~RowParses(DataLines[j])})

\* C12: for a header and n data rows (of the 11 columns) of which r have a
\* non-numeric age or salary, and all inserts succeeding, the response is a
\* success whose ingestion result has rows_read = n, rejected = r and
\* inserted = n - r.
C12_Claim ==
  (/\ Terminal /\ WellFormed /\ Len(file[1]) = 11
   /\ \A w \in Workers : ~InsertFailed(w)) =>
    /\ response.code = 200
    /\ {"rows_read", "rejected", "inserted"} \subseteq DOMAIN response
    /\ response.rows_read = Len(DataLines)
    /\ response.rejected = BadLines
    /\ response.inserted = Len(DataLines) - BadLines

ErrorLine ==
  LET bad == {j \in 1..Len(DataLines) : ~Readable(Len(file[1]), DataLines[j])} IN
  IF bad = {} THEN 0 ELSE CHOOSE j \in bad : \A i \in bad : j <= i

\* The full chunks that precede the line the reader fails on.
FullChunksBeforeError ==
  ChunksOf(SubSeq(DataLines, 1, ((ErrorLine - 1) \div chunkSize) * chunkSize),
           chunkSize)

\* C16: once the reader has met a read error it only closes the channel:
\* the rows buffered for the partial chunk are not published, nothing is
\* published afterwards, and what has been published is exactly the full
\* chunks that precede the line of the error.
C16_ErrorDropsPartialChunk ==
  readErr # "nil" =>
    /\ ErrorLine > 0
    /\ rdPc \in {"close", "done"}
    /\ rdPc = "done" => closed
    /\ published = FullChunksBeforeError
    /\ \A c \in 1..Len(published) : Len(published[c]) = chunkSize
    /\ records = SubSeq(DataLines, Len(published) * chunkSize + 1, ErrorLine - 1)
    /\ rowsRead = ErrorLine - 1

\* C16 witness: the reader stopped on an error and closed the channel with
\* a row buffered, after it had published a full chunk.
C16_Witness ==
  /\ readErr # "nil" /\ rdPc = "done" /\ closed
  /\ Len(published) >= 1 /\ Len(records) >= 1

\* The worker has passed the valid rows of its chunk to bulk insert (or had
\* none) and has finished.
Processed(w) ==
  /\ workers[w].pc = "done"
  /\ Len(workers[w].calls) = IF ValidRows(workers[w].records) # <<>> THEN 1 ELSE 0
  /\ \A c \in 1..Len(workers[w].calls) :
       Len(workers[w].calls[c].users) = Len(ValidRows(workers[w].records))

\* C17: after a stream read error nothing published is cancelled: every
\* published chunk is in the queue or with its worker, the range loop is
\* left only when all of them have a worker, and at the response each of
\* them has been processed to completion.
C17_PublishedChunksComplete ==
  readErr # "nil" =>
    /\ Len(workers) + Len(ch) = Len(published)
    /\ \A w \in Workers : workers[w].records = published[w]
    /\ upPc \in {"wait", "done"} => Len(workers) = Len(published)
    /\ upPc = "done" => \A w \in Workers : Processed(w)

\* C17 witness: the response after a read error, with a chunk published
\* before the error processed and inserted.
C17_Witness ==
  /\ readErr # "nil" /\ upPc = "done"
  /\ Len(published) >= 1
  /\ \E w \in Workers : Processed(w) /\ Len(workers[w].calls) = 1

\* Total number of rows of a sequence of chunks.
RECURSIVE RowsOf(_)
RowsOf(chunks) ==
  IF chunks = <<>> THEN 0 ELSE Len(Head(chunks)) + RowsOf(Tail(chunks))

\* Rows of the chunks of those of the first n workers that are in S.
RECURSIVE HeldUpTo(_, _)
HeldUpTo(n, S) ==
  IF n = 0 THEN 0
  ELSE (IF n \in S THEN Len(workers[n].records) ELSE 0) + HeldUpTo(n - 1, S)

\* Rows the reader has read and the coordinator has not yet received.
ReadAhead == rowsRead - HeldUpTo(Len(workers), Workers)

\* C18 as stated: the queue never exceeds its capacity, and while it is
\* full the reader reads no further row.
C18_Claim ==
  /\ [](Len(ch) <= queueCap)
  /\ [][Len(ch) = queueCap => rowsRead' = rowsRead]_vars

\* C18 amended: the queue never exceeds its capacity; while it is full the
\* reader may still fill the chunk it is building (at most chunkSize rows)
\* and is then blocked on its send, reading nothing until the coordinator
\* takes a chunk.
C18_Backpressure ==
  /\ [](Len(ch) <= queueCap)
  /\ [](ReadAhead <= (queueCap + 1) * chunkSize)
  /\ [][(Len(ch) = queueCap /\ rdPc \in {"send", "sendLast"}) =>
          UNCHANGED <<readerVars, published>>]_vars

\* C18 witness: the queue is full, the reader stands at its send with a
\* full chunk and there are lines left to read.
C18_Witness ==
  /\ Len(ch) = queueCap /\ rdPc = "send"
  /\ Len(records) = chunkSize /\ pos <= Len(file)

\* Rows buffered by in-flight chunks: in the queue, or held by a spawned
\* worker that has not finished (waiting for a token included).
InFlightRows == RowsOf(ch) + HeldUpTo(Len(workers), Unfinished)

\* C19 as stated: the in-flight rows are bounded by queue capacity x chunk
\* size x concurrency.
C19_Claim == InFlightRows <= queueCap * chunkSize * maxConcurrency

\* C19 amended: the rows in the queue are at most queue capacity x chunk
\* size and the rows held by workers that hold a token at most concurrency
\* x chunk size; the rows held by workers waiting for a token are bounded
\* only by the rows read from the file.
C19_InFlightBound ==
  /\ RowsOf(ch) <= queueCap * chunkSize
  /\ HeldUpTo(Len(workers), Active) <= maxConcurrency * chunkSize
  /\ InFlightRows <= rowsRead

\* C19 witness: more rows in flight than queue capacity x chunk size x
\* concurrency, held by workers waiting for a token.
C19_Witness ==
  /\ InFlightRows > queueCap * chunkSize * maxConcurrency
  /\ \E w \in Workers : workers[w].pc = "acquire"

\* First names of a sequence of rows / of records.
RowNames(recs) == [j \in 1..Len(recs) |-> Field(recs[j], 1)]
UserNames(users) == [j \in 1..Len(users) |-> users[j].FirstName]

\* C20: the record sequence passed to bulk insert is the subsequence of the
\* chunk's rows that parse, in the order of the chunk, each once.
C20_OrderPreserved ==
  \A w \in Workers : \A c \in 1..Len(workers[w].calls) :
    UserNames(workers[w].calls[c].users) = RowNames(ValidRows(workers[w].records))

\* C20 witness: an insert call with the two records of a two-row chunk.
C20_Witness ==
  \E w \in Workers :
    /\ Len(workers[w].calls) = 1
    /\ Len(workers[w].calls[1].users) = 2

\* C13: a row whose age and salary parse is accepted whatever the raw
\* value of its boolean field, and its record has IsActive true exactly
\* when that raw value is the string "true" ("True", "1" and "" give false).
C13_IsActiveExact ==
  \A w \in Workers :
    workers[w].pc # "acquire" =>
      LET recs == workers[w].records
          users == workers[w].users IN
      /\ Len(users) = Len(ValidRows(recs))
      /\ \A j \in 1..Len(recs) :
           RowParses(recs[j]) =>
             /\ \A k \in 1..Len(workers[w].skipped) : workers[w].skipped[k] # recs[j]
             /\ \E u \in 1..Len(users) :
                  /\ users[u].FirstName = Field(recs[j], 1)
                  /\ users[u].IsActive = (Field(recs[j], 10) = "true")
                  /\ Field(recs[j], 10) \in {"True", "1", ""} => ~users[u].IsActive

\* C13 witness: an insert call with a record that is active (raw "true")
\* and a record that is not (raw "True").
C13_Witness ==
  \E w \in Workers :
    /\ Len(workers[w].calls) = 1
    /\ Len(workers[w].records) = 2
    /\ Field(workers[w].records[1], 10) = "true"
    /\ Field(workers[w].records[2], 10) = "True"
    /\ workers[w].calls[1].users[1].IsActive
    /\ ~workers[w].calls[1].users[2].IsActive

\* The file can be scanned to its end.
LogReadable ==
  /\ logFile.exists /\ logFile.openable
  /\ \A j \in 1..Len(logFile.lines) : logFile.lines[j] # OversizeLine

\* Number of lines that contain the keyword k, whatever the case.
LinesWith(k) ==
  Cardinality({j \in 1..Len(logFile.lines) : Contains(ToUpper(logFile.lines[j]), k)})

\* Number of lines that contain k and none of the keywords in before.
LinesWithFirst(k, before) ==
  Cardinality({j \in 1..Len(logFile.lines) :
                 /\ Contains(ToUpper(logFile.lines[j]), k)
                 /\ \A b \in before : ~Contains(ToUpper(logFile.lines[j]), b)})

\* C14 as stated: analyzeLogs returns for each level the number of lines
\* that contain its keyword, and an error without counts for a missing file.
C14_Claim ==
  logPc = "done" =>
    /\ LogReadable =>
         /\ logResult.err = "nil"
         /\ logResult.counts = [k \in LogLevels |-> LinesWith(k)]
    /\ ~logFile.exists => logResult.err # "nil" /\ logResult.counts = "nil"

\* C14 amended: each line is counted once, for the first of INFO, ERROR,
\* DEBUG (in this order) that it contains, whatever the case; a file that
\* is missing, cannot be opened or has a line beyond the scanner's buffer
\* gives an error and no counts.
C14_FirstLevelCounted ==
  logPc = "done" =>
    /\ LogReadable =>
         /\ logResult.err = "nil"
         /\ logResult.counts.INFO = LinesWithFirst("INFO", {})
         /\ logResult.counts.ERROR = LinesWithFirst("ERROR", {"INFO"})
         /\ logResult.counts.DEBUG = LinesWithFirst("DEBUG", {"INFO", "ERROR"})
    /\ ~LogReadable => logResult.err # "nil" /\ logResult.counts = "nil"

\* C14 witness: the file of TestAnalyzeLogs (one INFO, one ERROR and one
\* DEBUG line) analysed with the result 1/1/1.
C14_Witness ==
  /\ logPc = "done"
  /\ logFile.lines = <<<<"INFO", "log">>, <<"ERROR", "log">>, <<"DEBUG", "log">>>>
  /\ logResult = [counts |-> [k \in LogLevels |-> 1], err |-> "nil"]

\* C21: the chunks leave the reader in file order and the workers are
\* spawned in that order, but the order of the bulk-insert calls is not
\* fixed: whenever a token is free, any worker that waits for one can take
\* it, whatever its place in the spawn order, and a worker that holds its
\* records can make its insert call whatever the earlier workers do.
C21_InsertOrderNotFixed ==
  /\ Concat(published) = SubSeq(DataLines, 1, RowsOf(published))
  /\ \A w \in Workers : workers[w].records = published[w]
  /\ \A w \in Workers :
       /\ (~crashed /\ workers[w].pc = "acquire" /\ semaphore < maxConcurrency)
            => ENABLED AcquireAndParse(w)
       /\ (~crashed /\ workers[w].pc = "insert") => ENABLED Insert(w)

\* C21 witness: with a pool of one token, the worker of a later chunk has
\* made its insert call while the worker of an earlier chunk, which has
\* rows to insert, still waits for the token.
C21_Witness ==
  /\ maxConcurrency = 1
  /\ \E w1, w2 \in Workers :
       /\ w1 < w2
       /\ workers[w1].pc = "acquire"
       /\ ValidRows(workers[w1].records) # <<>>
       /\ Len(file[1]) = 11
       /\ workers[w2].calls # <<>>

\* How far each goroutine has come in its code.
ReaderRank ==
  CASE rdPc = "idle"             -> 0
    [] rdPc = "header"           -> 1
    [] rdPc \in {"loop", "send"} -> 2
    [] rdPc = "sendLast"         -> 3
    [] rdPc = "close"            -> 4
    [] OTHER                     -> 5

UploadRank ==
  CASE upPc = "start" -> 0
    [] upPc = "range" -> 1
    [] upPc = "wait"  -> 2
    [] OTHER          -> 3

WorkerRank(pc) ==
  CASE pc = "acquire"                -> 0
    [] pc \in {"insert", "panicked"} -> 1
    [] pc = "release"                -> 2
    [] pc = "wgDone"                 -> 3
    [] OTHER                         -> 4

RECURSIVE WorkerRanksUpTo(_, _)
WorkerRanksUpTo(ws, n) ==
  IF n = 0 THEN 0 ELSE WorkerRank(ws[n].pc) + WorkerRanksUpTo(ws, n - 1)

\* A number that every step of the upload raises and that the size of the
\* file bounds: no execution goes on for ever.
Progress ==
  pos + Len(published) + ReaderRank + UploadRank + Len(workers)
    + WorkerRanksUpTo(workers, Len(workers))

ProgressBound == 5 * (Len(file) + 2) + 10

\* The range loop of uploadCSV has ended.
LoopEnded == upPc \in {"wait", "done"}

\* The four ways readCSVChunk comes to its end.
ReaderCase ==
  CASE readErr # "nil"                        -> "read error"
    [] Len(file) <= 1                         -> "empty input"
    [] Len(DataLines) % chunkSize = 0         -> "EOF on a chunk boundary"
    [] OTHER                                  -> "EOF after a partial chunk"

\* C23: readCSVChunk closes the channel exactly once, as its last action
\* (closed holds exactly when the reader has returned, the close is the step
\* that takes it there, and it is never undone); after the close nothing is
\* sent and the reader does nothing; the range loop ends only on a closed
\* and drained channel with every published chunk received, and it always
\* ends: every step makes progress towards a bound, and an execution stops
\* only with the upload answered (or with the process killed by the panic
\* of a worker).
C23_ClosedOnceAsLastAction ==
  /\ [](closed <=> rdPc = "done")
  /\ [][closed' # closed => (~closed /\ rdPc = "close" /\ rdPc' = "done")]_vars
  /\ [][closed => (/\ closed'
                   /\ UNCHANGED <<readerVars, published>>
                   /\ (ch' = ch \/ (ch # <<>> /\ ch' = Tail(ch))))]_vars
  /\ [](LoopEnded /\ Started =>
          closed /\ ch = <<>> /\ Len(workers) = Len(published))
  /\ [][LoopEnded => UNCHANGED <<ch, published, closed>> /\ Len(workers') = Len(workers)]_vars
  /\ [][Progress' > Progress]_vars
  /\ [](Progress <= ProgressBound)
  /\ []((~ENABLED Next /\ ~crashed) =>
          /\ upPc = "done" /\ response # NoResponse
          /\ Started => (closed /\ rdPc = "done" /\ LoopEnded))

\* C23 witness: the reader stopped on a read error after it had published
\* a chunk, closed the channel, and the range loop ended after the close
\* with the chunk received.
C23_Witness ==
  /\ ReaderCase = "read error" /\ closed /\ rdPc = "done"
  /\ Len(published) >= 1
  /\ LoopEnded /\ ch = <<>> /\ Len(workers) = Len(published)

\* The columns of an ORDER BY without the repetitions, which do not change
\* the order of the rows.
RECURSIVE EffectiveOrder(_)
EffectiveOrder(cols) ==
  IF cols = <<>> THEN <<>>
  ELSE LET front == EffectiveOrder(SubSeq(cols, 1, Len(cols) - 1)) IN
       IF \E j \in 1..Len(front) : front[j] = cols[Len(cols)]
         THEN front ELSE Append(front, cols[Len(cols)])

\* The handler call ran its Find.
Queried(r) == requests[r].code \in {200, 500}

\* What the request asked for: its own (page-1)*size, size and "id ASC".
OwnQuery(r) ==
  [offset |-> (requests[r].page - 1) * requests[r].size,
   limit |-> requests[r].size,
   order |-> <<"id ASC">>]

\* What its Find ran with.
AppliedQuery(r) ==
  [offset |-> requests[r].applied.offset,
   limit |-> requests[r].applied.limit,
   order |-> EffectiveOrder(requests[r].applied.order)]

\* C22: for concurrent or successive GET /api/records requests through one
\* shared GormDatabase handle, the offset, limit and ordering of each
\* request's Find are its own (page-1)*size, size and "id ASC", under every
\* interleaving.
C22_Claim == \A r \in Requests : Queried(r) => AppliedQuery(r) = OwnQuery(r)

\* What does hold of the code: the first request through the handle gets
\* its own query when its chain runs before any other request has come in.
FirstRequestAlone ==
  (Queried(1) /\ \A r \in Requests \ {1} : requests[r].pc = "idle")
    => AppliedQuery(1) = OwnQuery(1)

====
